---- MODULE Spec2Model ----
(***************************************************************************)
(* Model of bazel_to_cmake.py: BazelParser (a BUILD file evaluated with    *)
(* recording functions bound to cc_library, cc_test, cc_binary and load)   *)
(* and CMakeGenerator (the CMakeLists.txt rendered from the targets).      *)
(*                                                                         *)
(* A Python str is a sequence of one-character strings, so that            *)
(* startswith, `in`, split and slicing are computed on the characters.     *)
(* An output line is the f-string that produced it: its template and the   *)
(* values interpolated into it.  The written file is the sequence of       *)
(* lines that '\n'.join(lines) joins.                                      *)
(***************************************************************************)
EXTENDS Naturals, Sequences, FiniteSets

VARIABLES
    pc,             \* "call" before the operation of the specification ran, "done" after
    bazel_deps,     \* argument of _convert_deps_to_cmake
    cmake_deps,     \* value returned by _convert_deps_to_cmake
    targets,        \* argument of generate_cmake: list of BazelTarget
    output,         \* lines written to output_path by generate_cmake
    content,        \* text of the BUILD file given to parse_file
    self_targets,   \* BazelParser.targets
    parse_result,   \* what parse_file returned, or the error it raised
    fs,             \* the files main works on: the BUILD file and the output file
    returned        \* how a run of main ended: exit status and uncaught exception

vars == <<pc, bazel_deps, cmake_deps, targets, output, content, self_targets, parse_result,
          fs, returned>>

(***************************************************************************)
(* Bounds of the model.                                                    *)
(***************************************************************************)
MaxDeps == 2        \* longest dependency list given to _convert_deps_to_cmake alone
MaxTargets == 2     \* longest list of targets given to generate_cmake
MaxStmts == 2       \* most statements in a BUILD file

(***************************************************************************)
(* Python str operations.                                                  *)
(***************************************************************************)
\* s.startswith(p)
StartsWith(s, p) == Len(s) >= Len(p) /\ SubSeq(s, 1, Len(p)) = p

\* p in s
Contains(s, p) == \E i \in 1..(Len(s) + 1) :
                      i + Len(p) - 1 <= Len(s) /\ SubSeq(s, i, i + Len(p) - 1) = p

\* s[1:]
DropFirst(s) == SubSeq(s, 2, Len(s))

\* s.split(c)[-1] for a one-character separator c: what follows the last c,
\* the whole of s when c does not occur
RECURSIVE SplitLast(_, _)
SplitLast(s, c) ==
    IF s = <<>> THEN <<>>
    ELSE LET rest == SplitLast(Tail(s), c)
         IN  IF \E i \in 1..Len(Tail(s)) : Tail(s)[i] = c THEN rest
             ELSE IF Head(s) = c THEN Tail(s)
             ELSE s

(***************************************************************************)
(* String literals of the source.                                          *)
(***************************************************************************)
GTEST_MAIN_LABEL == <<"@","c","o","m","_","g","o","o","g","l","e","_","g","o","o","g","l","e","t","e","s","t","/","/",":","g","t","e","s","t","_","m","a","i","n">>
GTEST_LABEL == <<"@","c","o","m","_","g","o","o","g","l","e","_","g","o","o","g","l","e","t","e","s","t","/","/",":","g","t","e","s","t">>
GTEST_MAIN == <<"G","T","e","s","t",":",":","g","t","e","s","t","_","m","a","i","n">>
GTEST == <<"G","T","e","s","t",":",":","g","t","e","s","t">>
GOOGLETEST_WORD == <<"g","o","o","g","l","e","t","e","s","t">>
GTEST_WORD == <<"g","t","e","s","t">>
MAIN_WORD == <<"m","a","i","n">>

(***************************************************************************)
(* CMakeGenerator._convert_deps_to_cmake                                   *)
(***************************************************************************)
\* The plain gtest label is looked for before the gtest_main label.
ConvertDepBreaksPrecedence(dep) ==
    IF StartsWith(dep, <<":">>) THEN <<DropFirst(dep)>>
    ELSE IF StartsWith(dep, <<"/", "/">>) THEN
        <<IF Contains(dep, <<":">>) THEN SplitLast(dep, ":") ELSE SplitLast(dep, "/")>>
    ELSE IF Contains(dep, GTEST_LABEL) THEN <<GTEST>>
    ELSE IF Contains(dep, GTEST_MAIN_LABEL) THEN <<GTEST_MAIN>>
    ELSE IF StartsWith(dep, <<"@">>) THEN
        IF Contains(dep, GOOGLETEST_WORD) \/ Contains(dep, GTEST_WORD) THEN
            IF Contains(dep, MAIN_WORD) THEN <<GTEST_MAIN>> ELSE <<GTEST>>
        ELSE <<>>
    ELSE <<>>

\* One iteration of the loop: what the if/elif chain appends for dep.
ConvertDep(dep) ==
    IF StartsWith(dep, <<":">>) THEN <<DropFirst(dep)>>
    ELSE IF StartsWith(dep, <<"/", "/">>) THEN
        <<IF Contains(dep, <<":">>) THEN SplitLast(dep, ":") ELSE SplitLast(dep, "/")>>
    ELSE IF Contains(dep, GTEST_MAIN_LABEL) THEN <<GTEST_MAIN>>
    ELSE IF Contains(dep, GTEST_LABEL) THEN <<GTEST>>
    ELSE IF StartsWith(dep, <<"@">>) THEN
        IF Contains(dep, GOOGLETEST_WORD) \/ Contains(dep, GTEST_WORD) THEN
            IF Contains(dep, MAIN_WORD) THEN <<GTEST_MAIN>> ELSE <<GTEST>>
        ELSE <<>>
    ELSE <<>>

\* The loop stops at the first dependency that no rule matches.
RECURSIVE ConvertDepsStopsAtUnmatched(_)
ConvertDepsStopsAtUnmatched(deps) ==
    IF deps = <<>> THEN <<>>
    ELSE IF ConvertDep(Head(deps)) = <<>> THEN <<>>
    ELSE ConvertDep(Head(deps)) \o ConvertDepsStopsAtUnmatched(Tail(deps))

RECURSIVE _convert_deps_to_cmake(_)
_convert_deps_to_cmake(deps) ==
    IF deps = <<>> THEN <<>>
    ELSE ConvertDep(Head(deps)) \o _convert_deps_to_cmake(Tail(deps))

(***************************************************************************)
(* BazelTarget: the fields set by __init__ and add_attribute.              *)
(***************************************************************************)
BazelTarget(rule_type, name) ==
    [rule_type |-> rule_type, name |-> name, hdrs |-> <<>>, srcs |-> <<>>,
     deps |-> <<>>, visibility |-> <<>>, data |-> <<>>]

\* add_attribute extends the list of an attribute it knows and ignores any other
add_attribute(target, attr_name, values) ==
    IF attr_name = "hdrs" THEN [target EXCEPT !.hdrs = @ \o values]
    ELSE IF attr_name = "srcs" THEN [target EXCEPT !.srcs = @ \o values]
    ELSE IF attr_name = "deps" THEN [target EXCEPT !.deps = @ \o values]
    ELSE IF attr_name = "visibility" THEN [target EXCEPT !.visibility = @ \o values]
    ELSE IF attr_name = "data" THEN [target EXCEPT !.data = @ \o values]
    ELSE target

(***************************************************************************)
(* BazelParser.  The BUILD file is a sequence of call statements            *)
(* fn(positional..., keyword = value, ...); syntax_ok tells whether the    *)
(* text compiles.  A keyword value is a list of strings                    *)
(* [is_list |-> TRUE, items |-> ...] or a single string                    *)
(* [is_list |-> FALSE, value |-> ...]; kwargs maps the keywords given to   *)
(* their values.                                                           *)
(***************************************************************************)
ATTRIBUTES == <<"hdrs", "srcs", "deps", "visibility", "data">>

\* A single string is extended into the list as it is, character by character.
PopulateTargetExtendsWithString(target, kwargs) ==
    LET RECURSIVE Loop(_, _)
        Loop(t, i) ==
            IF i > Len(ATTRIBUTES) THEN t
            ELSE IF ATTRIBUTES[i] \in DOMAIN kwargs THEN
                LET values == kwargs[ATTRIBUTES[i]]
                IN  IF values.is_list
                    THEN Loop(add_attribute(t, ATTRIBUTES[i], values.items), i + 1)
                    ELSE Loop(add_attribute(t, ATTRIBUTES[i],
                                  [c \in 1..Len(values.value) |-> <<values.value[c]>>]), i + 1)
            ELSE Loop(t, i + 1)
    IN  Loop(target, 1)

_populate_target(target, kwargs) ==
    LET RECURSIVE Loop(_, _)
        Loop(t, i) ==
            IF i > Len(ATTRIBUTES) THEN t
            ELSE IF ATTRIBUTES[i] \in DOMAIN kwargs THEN
                LET values == kwargs[ATTRIBUTES[i]]
                IN  IF values.is_list
                    THEN Loop(add_attribute(t, ATTRIBUTES[i], values.items), i + 1)
                    ELSE Loop(add_attribute(t, ATTRIBUTES[i], <<values.value>>), i + 1)
            ELSE Loop(t, i + 1)
    IN  Loop(target, 1)

\* cc_library, cc_test, cc_binary: the target the recording function appends
Recorded(rule_type, kwargs) ==
    _populate_target(
        BazelTarget(rule_type,
                    IF "name" \in DOMAIN kwargs THEN kwargs["name"].value ELSE <<>>),
        kwargs)

\* names bound in exec_globals to the recording functions
RULES == {"cc_library", "cc_test", "cc_binary"}
\* names exec finds in the builtins of the interpreter
BUILTINS == {"print"}

\* One call statement evaluated against self.targets ts: the error it raises
\* ("" for none) and self.targets after it.
ExecStatement(ts, stmt) ==
    IF stmt.fn = "load" THEN [raised |-> "", targets |-> ts]
    ELSE IF stmt.fn \in RULES THEN
        IF stmt.positional > 0 THEN [raised |-> "TypeError", targets |-> ts]
        ELSE [raised |-> "", targets |-> Append(ts, Recorded(stmt.fn, stmt.kwargs))]
    ELSE IF stmt.fn \in BUILTINS THEN [raised |-> "", targets |-> ts]
    ELSE [raised |-> "NameError", targets |-> ts]

\* exec(content, exec_globals): the statements run in order until one raises
RECURSIVE Exec(_, _)
Exec(ts, stmts) ==
    IF stmts = <<>> THEN [raised |-> "", targets |-> ts]
    ELSE LET r == ExecStatement(ts, Head(stmts))
         IN  IF r.raised # "" THEN r ELSE Exec(r.targets, Tail(stmts))

\* parse_file on a parser whose self.targets is ts: the error raised, self.targets
\* afterwards and the list returned
parse_file(ts, text) ==
    IF ~text.syntax_ok THEN [raised |-> "SyntaxError", targets |-> ts, value |-> <<>>]
    ELSE LET r == Exec(ts, text.stmts)
         IN  [raised |-> r.raised, targets |-> r.targets,
              value |-> IF r.raised = "" THEN r.targets ELSE <<>>]

(***************************************************************************)
(* CMakeGenerator.  A line is the f-string that made it: template t with   *)
(* the values a in place of its {} fields.                                 *)
(***************************************************************************)
Line(t, a) == [t |-> t, a |-> a]

\* [Line(t, <<x>>) for x in xs]
LinesFor(t, xs) == [i \in 1..Len(xs) |-> Line(t, <<xs[i]>>)]

\* fields set by CMakeGenerator.__init__
project_name == <<"s","t","r","o","n","g","_","t","y","p","e","d","e","f","s">>
cmake_minimum_version == <<"3",".","2","0">>
cpp_standard == <<"2","0">>

_generate_header ==
    << Line("cmake_minimum_required(VERSION {})", <<cmake_minimum_version>>),
       Line("project({} LANGUAGES CXX)", <<project_name>>),
       Line("", <<>>),
       Line("set(CMAKE_CXX_STANDARD {})", <<cpp_standard>>),
       Line("set(CMAKE_CXX_STANDARD_REQUIRED ON)", <<>>),
       Line("set(CMAKE_CXX_EXTENSIONS OFF)", <<>>),
       Line("", <<>>),
       Line("# Enable testing", <<>>),
       Line("include(CTest)", <<>>),
       Line("enable_testing()", <<>>) >>

_find_external_deps(ts) ==
    IF \E i \in 1..Len(ts) : \E j \in 1..Len(ts[i].deps) :
           /\ StartsWith(ts[i].deps[j], <<"@">>)
           /\ Contains(ts[i].deps[j], GOOGLETEST_WORD) \/ Contains(ts[i].deps[j], GTEST_WORD)
    THEN {"GTest"} ELSE {}

_generate_find_package_section(external_deps) ==
    <<Line("# External dependencies", <<>>)>> \o
    (IF "GTest" \in external_deps THEN
        << Line("include(FetchContent)", <<>>),
           Line("", <<>>),
           Line("# Fetch GoogleTest", <<>>),
           Line("FetchContent_Declare(", <<>>),
           Line("    googletest", <<>>),
           Line("    GIT_REPOSITORY https://github.com/google/googletest.git", <<>>),
           Line("    GIT_TAG        v1.14.0", <<>>),
           Line(")", <<>>),
           Line("FetchContent_MakeAvailable(googletest)", <<>>) >>
     ELSE <<>>)

\* target_link_libraries of a library: emitted when the converted list is not empty
LibraryLinkLines(target, is_header_only) ==
    IF target.deps # <<>> THEN
        LET deps == _convert_deps_to_cmake(target.deps)
        IN  IF deps # <<>> THEN
                <<Line("target_link_libraries({} {}", <<target.name,
                       IF is_header_only THEN <<"I","N","T","E","R","F","A","C","E">>
                                         ELSE <<"P","U","B","L","I","C">> >>)>>
                \o LinesFor("    {}", deps)
                \o <<Line(")", <<>>)>>
            ELSE <<>>
    ELSE <<>>

\* the lines of _generate_library_target once is_header_only is known
LibraryLines(target, is_header_only) ==
    <<Line("# Library: {}", <<target.name>>)>>
    \o (IF is_header_only THEN
            <<Line("add_library({} INTERFACE)", <<target.name>>)>>
            \o (IF target.hdrs # <<>> THEN
                    <<Line("target_sources({} INTERFACE", <<target.name>>)>>
                    \o LinesFor("    ${CMAKE_CURRENT_SOURCE_DIR}/{}", target.hdrs)
                    \o <<Line(")", <<>>)>>
                ELSE <<>>)
            \o << Line("target_include_directories({} INTERFACE", <<target.name>>),
                  Line("    $<BUILD_INTERFACE:${CMAKE_CURRENT_SOURCE_DIR}>", <<>>),
                  Line("    $<INSTALL_INTERFACE:include>", <<>>),
                  Line(")", <<>>) >>
        ELSE
            <<Line("add_library({}", <<target.name>>)>>
            \o LinesFor("    {}", target.srcs \o target.hdrs)
            \o <<Line(")", <<>>)>>
            \o << Line("target_include_directories({} PUBLIC", <<target.name>>),
                  Line("    $<BUILD_INTERFACE:${CMAKE_CURRENT_SOURCE_DIR}>", <<>>),
                  Line("    $<INSTALL_INTERFACE:include>", <<>>),
                  Line(")", <<>>) >>)
    \o LibraryLinkLines(target, is_header_only)

\* A library is header-only whenever it has headers, sources or not.
GenerateLibraryIgnoresSources(target) == LibraryLines(target, target.hdrs # <<>>)

\* A library is header-only when it has neither sources nor headers.
GenerateLibraryHeaderTestInverted(target) ==
    LibraryLines(target, target.srcs = <<>> /\ target.hdrs = <<>>)

\* is_header_only = not target.srcs and target.hdrs
_generate_library_target(target) ==
    LibraryLines(target, target.srcs = <<>> /\ target.hdrs # <<>>)

\* The link declaration is emitted without looking at the converted list.
ExecutableLinkLinesUnguarded(target) ==
    <<Line("target_link_libraries({}", <<target.name>>)>>
    \o LinesFor("    {}", _convert_deps_to_cmake(target.deps))
    \o <<Line(")", <<>>)>>

\* target_link_libraries of a test or a binary
ExecutableLinkLines(target) ==
    LET deps == _convert_deps_to_cmake(target.deps)
    IN  IF deps # <<>> THEN
            <<Line("target_link_libraries({}", <<target.name>>)>>
            \o LinesFor("    {}", deps)
            \o <<Line(")", <<>>)>>
        ELSE <<>>

\* The test is registered before its link libraries are declared.
GenerateTestRegistersEarly(target) ==
    <<Line("# Test: {}", <<target.name>>)>>
    \o <<Line("add_executable({}", <<target.name>>)>>
    \o LinesFor("    {}", target.srcs)
    \o <<Line(")", <<>>)>>
    \o <<Line("add_test(NAME {} COMMAND {})", <<target.name, target.name>>)>>
    \o ExecutableLinkLines(target)

_generate_test_target(target) ==
    <<Line("# Test: {}", <<target.name>>)>>
    \o <<Line("add_executable({}", <<target.name>>)>>
    \o LinesFor("    {}", target.srcs)
    \o <<Line(")", <<>>)>>
    \o ExecutableLinkLines(target)
    \o <<Line("add_test(NAME {} COMMAND {})", <<target.name, target.name>>)>>

_generate_binary_target(target) ==
    <<Line("# Binary: {}", <<target.name>>)>>
    \o <<Line("add_executable({}", <<target.name>>)>>
    \o LinesFor("    {}", target.srcs)
    \o <<Line(")", <<>>)>>
    \o ExecutableLinkLines(target)

_generate_target(target) ==
    IF target.rule_type = "cc_library" THEN _generate_library_target(target)
    ELSE IF target.rule_type = "cc_test" THEN _generate_test_target(target)
    ELSE IF target.rule_type = "cc_binary" THEN _generate_binary_target(target)
    ELSE <<Line("# {}: {}", <<target.rule_type, target.name>>)>>

IsLibrary(t) == t.rule_type = "cc_library"

\* Every target that has headers is installed, whatever its kind.
RECURSIVE LibraryTargetsAnyKind(_)
LibraryTargetsAnyKind(ts) ==
    IF ts = <<>> THEN <<>>
    ELSE (IF IsLibrary(Head(ts)) \/ Head(ts).hdrs # <<>> THEN <<Head(ts)>> ELSE <<>>)
         \o LibraryTargetsAnyKind(Tail(ts))

\* library_targets = [t for t in targets if t.rule_type == "cc_library"]
RECURSIVE LibraryTargets(_)
LibraryTargets(ts) ==
    IF ts = <<>> THEN <<>>
    ELSE (IF IsLibrary(Head(ts)) THEN <<Head(ts)>> ELSE <<>>) \o LibraryTargets(Tail(ts))

RECURSIVE InstallFilesLines(_)
InstallFilesLines(library_targets) ==
    IF library_targets = <<>> THEN <<>>
    ELSE (IF Head(library_targets).hdrs # <<>> THEN
              <<Line("install(FILES", <<>>)>>
              \o LinesFor("    {}", Head(library_targets).hdrs)
              \o <<Line("    DESTINATION include)", <<>>)>>
          ELSE <<>>)
         \o InstallFilesLines(Tail(library_targets))

_generate_install_rules(library_targets) ==
    LET target_names == [i \in 1..Len(library_targets) |-> library_targets[i].name]
    IN  <<Line("# Install rules", <<>>)>>
        \o InstallFilesLines(library_targets)
        \o (IF target_names # <<>> THEN
                <<Line("install(TARGETS", <<>>)>>
                \o LinesFor("    {}", target_names)
                \o << Line("    EXPORT ${PROJECT_NAME}Targets", <<>>),
                      Line("    LIBRARY DESTINATION lib", <<>>),
                      Line("    ARCHIVE DESTINATION lib", <<>>),
                      Line("    RUNTIME DESTINATION bin", <<>>),
                      Line("    INCLUDES DESTINATION include)", <<>>) >>
            ELSE <<>>)

\* A target whose name a later target repeats gets no block.
RECURSIVE TargetBlocksSkipsRepeatedNames(_)
TargetBlocksSkipsRepeatedNames(ts) ==
    IF ts = <<>> THEN <<>>
    ELSE (IF \E i \in 1..Len(Tail(ts)) : Tail(ts)[i].name = Head(ts).name THEN <<>>
          ELSE _generate_target(Head(ts)) \o <<Line("", <<>>)>>)
         \o TargetBlocksSkipsRepeatedNames(Tail(ts))

\* for target in targets: lines.extend(self._generate_target(target)); lines.append("")
RECURSIVE TargetBlocks(_)
TargetBlocks(ts) ==
    IF ts = <<>> THEN <<>>
    ELSE _generate_target(Head(ts)) \o <<Line("", <<>>)>> \o TargetBlocks(Tail(ts))

\* the lines generate_cmake writes to output_path
generate_cmake(ts) ==
    LET external_deps == _find_external_deps(ts)
        library_targets == LibraryTargets(ts)
    IN  _generate_header \o <<Line("", <<>>)>>
        \o (IF external_deps # {} THEN
                _generate_find_package_section(external_deps) \o <<Line("", <<>>)>>
            ELSE <<>>)
        \o TargetBlocks(ts)
        \o (IF library_targets # <<>> THEN _generate_install_rules(library_targets)
            ELSE <<>>)

(***************************************************************************)
(* main.  files is the BUILD file (build_exists) and the output file:      *)
(* whether open(output_path, 'w') succeeds (out_writable) and out_file,    *)
(* its lines and the number of times it was opened for writing.  The       *)
(* result is the exit status of the process, the exception that ended it,  *)
(* what parse_file gave and the files afterwards.                          *)
(***************************************************************************)
NotParsed == [raised |-> "", targets |-> <<>>, value |-> <<>>]

Exit(code, raised, parsed, files) ==
    [code |-> code, raised |-> raised, parsed |-> parsed, files |-> files]

\* with open(output_path, 'w') as f: f.write('\n'.join(lines))
WriteOutput(files, lines) ==
    [files EXCEPT !.out_file = [exists |-> TRUE, lines |-> lines, writes |-> @.writes + 1]]

\* The file is generated before the targets are looked at.
MainGeneratesBeforeEmptyCheck(files, text) ==
    IF ~files.build_exists THEN Exit(1, "", NotParsed, files)
    ELSE LET parsed == parse_file(<<>>, text)
         IN  IF parsed.raised # "" THEN Exit(1, parsed.raised, parsed, files)
             ELSE IF ~files.out_writable THEN Exit(1, "OSError", parsed, files)
             ELSE IF parsed.value = <<>>
                  THEN Exit(1, "", parsed, WriteOutput(files, generate_cmake(parsed.value)))
             ELSE Exit(0, "", parsed, WriteOutput(files, generate_cmake(parsed.value)))

\* an uncaught exception ends the interpreter with status 1
main(files, text) ==
    IF ~files.build_exists THEN Exit(1, "", NotParsed, files)
    ELSE LET parsed == parse_file(<<>>, text)
         IN  IF parsed.raised # "" THEN Exit(1, parsed.raised, parsed, files)
             ELSE IF parsed.value = <<>> THEN Exit(1, "", parsed, files)
             ELSE IF ~files.out_writable THEN Exit(1, "OSError", parsed, files)
             ELSE Exit(0, "", parsed, WriteOutput(files, generate_cmake(parsed.value)))

(***************************************************************************)
(* Dependency strings the model draws from.                                *)
(***************************************************************************)
D_local == <<":","f","o","o">>
D_colon == <<":">>
D_pkg_target == <<"/","/","a","/","b",":","f","o","o">>
D_pkg == <<"/","/","a","/","b">>
D_pkg_two_colons == <<"/","/","a",":","b",":","c">>
D_pkg_gtest == <<"/","/","t","h","i","r","d","_","p","a","r","t","y","/","g","o","o","g","l","e","t","e","s","t",":","g","t","e","s","t","_","m","a","i","n">>
D_gtest_main == GTEST_MAIN_LABEL
D_gtest == GTEST_LABEL
D_repo_gtest == <<"@","g","o","o","g","l","e","t","e","s","t","/","/",":","g","t","e","s","t">>
D_repo_gtest_main == <<"@","g","o","o","g","l","e","t","e","s","t","/","/",":","g","t","e","s","t","_","m","a","i","n">>
D_at_gtest == <<"@","g","t","e","s","t">>
D_boost == <<"@","b","o","o","s","t","/","/",":","a","s","i","o">>
D_relative == <<"f","o","o">>
D_prefixed_gtest == <<"x","@","c","o","m","_","g","o","o","g","l","e","_","g","o","o","g","l","e","t","e","s","t","/","/",":","g","t","e","s","t">>
D_local_label == <<":","@","c","o","m","_","g","o","o","g","l","e","_","g","o","o","g","l","e","t","e","s","t","/","/",":","g","t","e","s","t","_","m","a","i","n">>
D_pkg_label == <<"/","/","@","c","o","m","_","g","o","o","g","l","e","_","g","o","o","g","l","e","t","e","s","t","/","/",":","g","t","e","s","t">>
D_main_repo_label == <<"@","m","a","i","n","@","c","o","m","_","g","o","o","g","l","e","_","g","o","o","g","l","e","t","e","s","t","/","/",":","g","t","e","s","t">>

DepStrings == {D_local, D_colon, D_pkg_target, D_pkg, D_pkg_two_colons, D_pkg_gtest,
               D_gtest_main, D_gtest, D_repo_gtest, D_repo_gtest_main, D_at_gtest,
               D_boost, D_relative, D_prefixed_gtest, D_local_label, D_pkg_label,
               D_main_repo_label}

\* Every list of at most n elements of S.
SeqsUpTo(S, n) == UNION {[1..k -> S] : k \in 0..n}

(***************************************************************************)
(* Targets the model draws from.                                           *)
(***************************************************************************)
N_a == <<"a">>
N_b == <<"b">>
H_1 == <<"x",".","h">>
H_2 == <<"y",".","h">>
S_1 == <<"x",".","c","c">>
S_2 == <<"y",".","c","c">>

RuleTypes == {"cc_library", "cc_test", "cc_binary"}
Names == {N_a, N_b}
HdrsChoices == {<<>>, <<H_1>>, <<H_2, H_1>>}
SrcsChoices == {<<>>, <<S_1>>, <<S_2, S_1>>, <<S_1, S_1>>}
DepsChoices == {<<>>, <<D_local>>, <<D_boost>>, <<D_relative, D_boost>>,
                <<D_local, D_gtest_main>>, <<D_boost, D_pkg_target, D_repo_gtest>>,
                <<D_prefixed_gtest>>, <<D_gtest, D_local>>}

TargetsOf(names, hdrs, srcs, deps) ==
    {[rule_type |-> k, name |-> n, hdrs |-> h, srcs |-> s, deps |-> d,
      visibility |-> <<>>, data |-> <<>>] :
        k \in RuleTypes, n \in names, h \in hdrs, s \in srcs, d \in deps}

\* one target, every combination of its fields
RichTargets == TargetsOf(Names, HdrsChoices, SrcsChoices, DepsChoices)
\* several targets, fewer combinations
CoarseTargets == TargetsOf(Names, {<<>>, <<H_1>>}, {<<>>, <<S_1>>}, {<<>>, <<D_local, D_gtest_main>>})

GenerateInputs == {<<t>> : t \in RichTargets} \cup SeqsUpTo(CoarseTargets, MaxTargets)

(***************************************************************************)
(* BUILD files the model draws from.                                       *)
(***************************************************************************)
List(items) == [is_list |-> TRUE, items |-> items]
Single(value) == [is_list |-> FALSE, value |-> value]
\* the keyword is not given
Absent == [is_list |-> FALSE]

KEYWORDS == {"name", "hdrs", "srcs", "deps", "visibility", "data", "copts"}

\* the kwargs of a call that gives the keywords whose choice is not Absent
Kwargs(choice) == [k \in {k \in KEYWORDS : choice[k] # Absent} |-> choice[k]]

Call(fn, positional, kwargs) == [fn |-> fn, positional |-> positional, kwargs |-> kwargs]

V_public == <<"/","/","v","i","s","i","b","i","l","i","t","y",":","p","u","b","l","i","c">>
F_data == <<"d",".","t","x","t">>
O_flag == <<"-","O","2">>

\* one rule invocation, every combination of its keywords
RichStatements ==
    {Call(fn, 0, Kwargs([name |-> n, hdrs |-> h, srcs |-> s, deps |-> d,
                         visibility |-> v, data |-> da, copts |-> c])) :
        fn \in RULES,
        n \in {Absent, Single(N_a)},
        h \in {Absent, List(<<H_2, H_1>>), Single(H_1), List(<<>>)},
        s \in {Absent, List(<<S_1>>), Single(S_2)},
        d \in {Absent, List(<<D_local, D_boost>>), Single(D_gtest_main)},
        v \in {Absent, Single(V_public)},
        da \in {Absent, List(<<F_data>>)},
        c \in {Absent, List(<<O_flag>>)}}

\* several statements, fewer forms
CoarseStatements ==
    { Call("load", 2, <<>>),
      Call("package", 0, [default_visibility |-> List(<<V_public>>)]),
      Call("print", 1, <<>>),
      Call("cc_library", 1, <<>>),
      Call("cc_library", 0, [name |-> Single(N_a), hdrs |-> List(<<H_1>>)]),
      Call("cc_test", 0, [name |-> Single(N_b), srcs |-> Single(S_1),
                          deps |-> List(<<D_local, D_gtest_main>>)]),
      Call("cc_binary", 0, [srcs |-> List(<<S_2, S_1>>), copts |-> List(<<O_flag>>)]) }

Descriptors ==
    {[syntax_ok |-> TRUE, stmts |-> <<st>>] : st \in RichStatements}
    \cup {[syntax_ok |-> ok, stmts |-> sts] :
              ok \in BOOLEAN, sts \in SeqsUpTo(CoarseStatements, MaxStmts)}

(***************************************************************************)
(* Values of the variables a specification does not use.                   *)
(***************************************************************************)
NoContent == [syntax_ok |-> TRUE, stmts |-> <<>>]
NoResult == [raised |-> "", value |-> <<>>]

ResolveIdle == bazel_deps = <<>> /\ cmake_deps = <<>>
GenerateIdle == targets = <<>> /\ output = <<>>
ParseIdle == content = NoContent /\ self_targets = <<>> /\ parse_result = NoResult

NoFile == [exists |-> FALSE, lines |-> <<>>, writes |-> 0]
NoFiles == [build_exists |-> FALSE, out_writable |-> FALSE, out_file |-> NoFile]
NoReturn == [code |-> 0, raised |-> ""]
MainIdle == fs = NoFiles /\ returned = NoReturn

(***************************************************************************)
(* SpecResolve: _convert_deps_to_cmake applied to a list of dependency     *)
(* strings.                                                                *)
(***************************************************************************)
ResolveInit ==
    /\ pc = "call"
    /\ bazel_deps \in SeqsUpTo(DepStrings, MaxDeps)
    /\ cmake_deps = <<>>
    /\ GenerateIdle
    /\ ParseIdle
    /\ MainIdle

ConvertDeps ==
    /\ pc = "call"
    /\ cmake_deps' = _convert_deps_to_cmake(bazel_deps)
    /\ pc' = "done"
    /\ UNCHANGED <<bazel_deps, targets, output, content, self_targets, parse_result, fs, returned>>

SpecResolve == ResolveInit /\ [][ConvertDeps]_vars

(***************************************************************************)
(* SpecGenerate: generate_cmake applied to a list of targets.              *)
(***************************************************************************)
GenerateInit ==
    /\ pc = "call"
    /\ targets \in GenerateInputs
    /\ output = <<>>
    /\ ResolveIdle
    /\ ParseIdle
    /\ MainIdle

GenerateCMake ==
    /\ pc = "call"
    /\ output' = generate_cmake(targets)
    /\ pc' = "done"
    /\ UNCHANGED <<bazel_deps, cmake_deps, targets, content, self_targets, parse_result, fs, returned>>

SpecGenerate == GenerateInit /\ [][GenerateCMake]_vars

(***************************************************************************)
(* SpecParse: parse_file of a new BazelParser applied to a BUILD file.     *)
(***************************************************************************)
ParseInit ==
    /\ pc = "call"
    /\ content \in Descriptors
    /\ self_targets = <<>>
    /\ parse_result = NoResult
    /\ ResolveIdle
    /\ GenerateIdle
    /\ MainIdle

ParseFile ==
    /\ pc = "call"
    /\ LET r == parse_file(self_targets, content)
       IN  /\ self_targets' = r.targets
           /\ parse_result' = [raised |-> r.raised, value |-> r.value]
    /\ pc' = "done"
    /\ UNCHANGED <<bazel_deps, cmake_deps, targets, output, content, fs, returned>>

SpecParse == ParseInit /\ [][ParseFile]_vars

(***************************************************************************)
(* SpecMain: one run of main.                                              *)
(***************************************************************************)
OldFile == [exists |-> TRUE, lines |-> <<Line("# old", <<>>)>>, writes |-> 0]

MainInit ==
    /\ pc = "call"
    /\ fs \in [build_exists : BOOLEAN, out_writable : BOOLEAN, out_file : {NoFile, OldFile}]
    /\ content \in (IF fs.build_exists THEN Descriptors ELSE {NoContent})
    /\ self_targets = <<>>
    /\ parse_result = NoResult
    /\ returned = NoReturn
    /\ ResolveIdle
    /\ GenerateIdle

Main ==
    /\ pc = "call"
    /\ LET r == main(fs, content)
       IN  /\ fs' = r.files
           /\ self_targets' = r.parsed.targets
           /\ parse_result' = [raised |-> r.parsed.raised, value |-> r.parsed.value]
           /\ returned' = [code |-> r.code, raised |-> r.raised]
    /\ pc' = "done"
    /\ UNCHANGED <<bazel_deps, cmake_deps, targets, output, content>>

SpecMain == MainInit /\ [][Main]_vars

(***************************************************************************)
(* Claims on reference resolution.                                         *)
(***************************************************************************)
\* r is what follows the last occurrence of the character c in d
IsAfterLast(d, c, r) ==
    \E i \in 1..Len(d) :
        /\ d[i] = c
        /\ r = SubSeq(d, i + 1, Len(d))
        /\ \A j \in 1..Len(r) : r[j] # c

HasChar(d, c) == \E i \in 1..Len(d) : d[i] = c

RuleA(d) == StartsWith(d, <<":">>)
RuleB(d) == StartsWith(d, <<"/", "/">>)
RuleC(d) == Contains(d, GTEST_MAIN_LABEL)
RuleD(d) == Contains(d, GTEST_LABEL)
RuleE(d) == StartsWith(d, <<"@">>) /\ (Contains(d, GOOGLETEST_WORD) \/ Contains(d, GTEST_WORD))

\* C3: one dependency string resolves by the first of the rules a to e that
\* matches it: `:x` to x; `//p:x` to what follows the last `:`, `//p/x` to
\* what follows the last `/`; a string containing the gtest_main label to
\* GTest::gtest_main; one containing the gtest label to GTest::gtest; one
\* starting with `@` and containing googletest or gtest to GTest::gtest_main
\* if it contains main and to GTest::gtest otherwise.  The two GTest
\* identifiers differ, and an earlier rule wins over a later one.
C3_ResolutionPrecedence ==
    (pc = "done" /\ Len(bazel_deps) = 1) =>
        LET d == bazel_deps[1]
            a == RuleA(d)
            b == ~a /\ RuleB(d)
            c == ~a /\ ~RuleB(d) /\ RuleC(d)
            dd == ~a /\ ~RuleB(d) /\ ~RuleC(d) /\ RuleD(d)
            e == ~a /\ ~RuleB(d) /\ ~RuleC(d) /\ ~RuleD(d) /\ RuleE(d)
        IN  /\ a => cmake_deps = <<SubSeq(d, 2, Len(d))>>
            /\ b => /\ Len(cmake_deps) = 1
                    /\ IF HasChar(d, ":") THEN IsAfterLast(d, ":", cmake_deps[1])
                                          ELSE IsAfterLast(d, "/", cmake_deps[1])
            /\ c => cmake_deps = <<GTEST_MAIN>>
            /\ dd => cmake_deps = <<GTEST>>
            /\ e => cmake_deps = <<IF Contains(d, MAIN_WORD) THEN GTEST_MAIN ELSE GTEST>>
            /\ GTEST_MAIN # GTEST
            /\ d = D_local => cmake_deps = << <<"f","o","o">> >>
            /\ d = D_pkg_target => cmake_deps = << <<"f","o","o">> >>
            /\ d = D_pkg => cmake_deps = << <<"b">> >>
            /\ d = D_pkg_gtest => cmake_deps = << <<"g","t","e","s","t","_","m","a","i","n">> >>
            /\ d = D_local_label => cmake_deps = <<GTEST_MAIN_LABEL>>
            /\ d = D_pkg_label => cmake_deps = << <<"g","t","e","s","t">> >>
            /\ d = D_main_repo_label => cmake_deps = <<GTEST>>

C3_Witness ==
    /\ pc = "done"
    /\ bazel_deps = <<D_pkg_gtest>>
    /\ cmake_deps = << <<"g","t","e","s","t","_","m","a","i","n">> >>

RECURSIVE ConcatAll(_)
ConcatAll(ss) == IF ss = <<>> THEN <<>> ELSE Head(ss) \o ConcatAll(Tail(ss))

\* C4: resolving a list returns the concatenation, in order, of the results
\* of its strings one by one; a string no rule matches contributes nothing,
\* every other string exactly one identifier, so the result is never longer
\* than the list.
C4_ResolutionNeverFails ==
    pc = "done" =>
        /\ Len(cmake_deps) <= Len(bazel_deps)
        /\ cmake_deps =
               ConcatAll([i \in 1..Len(bazel_deps) |-> _convert_deps_to_cmake(<<bazel_deps[i]>>)])
        /\ \A i \in 1..Len(bazel_deps) :
               LET d == bazel_deps[i]
               IN  Len(_convert_deps_to_cmake(<<d>>)) =
                       IF RuleA(d) \/ RuleB(d) \/ RuleC(d) \/ RuleD(d) \/ RuleE(d) THEN 1 ELSE 0

C4_Witness ==
    /\ pc = "done"
    /\ bazel_deps = <<D_boost, D_local>>
    /\ cmake_deps = << <<"f","o","o">> >>

(***************************************************************************)
(* Reading the written lines back.                                         *)
(***************************************************************************)
BlockStarts ==
    {i \in 1..Len(output) : output[i].t \in {"# Library: {}", "# Test: {}", "# Binary: {}"}}

\* the lines of the k-th target block: from its comment line to the line
\* before the empty line that ends it
Block(k) ==
    IF k \in 1..Cardinality(BlockStarts) THEN
        LET first == CHOOSE i \in BlockStarts :
                         Cardinality({j \in BlockStarts : j < i}) = k - 1
            ends == {e \in first..Len(output) : output[e].t = ""}
        IN  IF ends = {} THEN SubSeq(output, first, Len(output))
            ELSE SubSeq(output, first, (CHOOSE e \in ends : \A f \in ends : e <= f) - 1)
    ELSE <<>>

\* the values of the run of indented item lines that starts ls
RECURSIVE Items(_)
Items(ls) ==
    IF ls # <<>> /\ Head(ls).t = "    {}" THEN <<Head(ls).a[1]>> \o Items(Tail(ls))
    ELSE <<>>

\* positions in b of the lines made from template t for the target named n
Declared(b, t, n) == {j \in 1..Len(b) : b[j].t = t /\ b[j].a[1] = n}

\* the item list of the declaration at position j of b, closed by `)`
FileList(b, j) == Items(SubSeq(b, j + 1, Len(b)))
Closed(b, j) ==
    LET n == Len(FileList(b, j)) IN j + n + 1 <= Len(b) /\ b[j + n + 1].t = ")"

HeaderOnly(t) == t.srcs = <<>> /\ t.hdrs # <<>>

(***************************************************************************)
(* Claims on the target blocks.                                            *)
(***************************************************************************)
\* C1 as stated: a target of any kind with no sources and some headers is
\* declared add_library(<name> INTERFACE), with no compiled-unit or
\* executable declaration.
C1_AnyKindHeaderOnlyIsInterface ==
    pc = "done" =>
        \A i \in 1..Len(targets) :
            HeaderOnly(targets[i]) =>
                LET b == Block(i)
                IN  /\ Cardinality(Declared(b, "add_library({} INTERFACE)", targets[i].name)) = 1
                    /\ \A j \in 1..Len(b) : b[j].t \notin {"add_library({}", "add_executable({}"}

\* C1 amended: a Library with no sources and some headers is declared
\* add_library(<name> INTERFACE), with no compiled-unit or executable
\* declaration; a Test or Binary is declared add_executable whatever its
\* sources and headers.
C1_HeaderOnlyLibraryIsInterface ==
    pc = "done" =>
        \A i \in 1..Len(targets) :
            LET b == Block(i)
                t == targets[i]
            IN  /\ (t.rule_type = "cc_library" /\ HeaderOnly(t)) =>
                       /\ Cardinality(Declared(b, "add_library({} INTERFACE)", t.name)) = 1
                       /\ \A j \in 1..Len(b) :
                              b[j].t \notin {"add_library({}", "add_executable({}"}
                /\ t.rule_type \in {"cc_test", "cc_binary"} =>
                       /\ Cardinality(Declared(b, "add_executable({}", t.name)) = 1
                       /\ \A j \in 1..Len(b) :
                              b[j].t \notin {"add_library({}", "add_library({} INTERFACE)"}

C1_Witness ==
    /\ pc = "done"
    /\ Len(targets) = 1
    /\ targets[1].rule_type = "cc_library"
    /\ targets[1].srcs = <<>>
    /\ targets[1].hdrs = <<H_2, H_1>>
    /\ \E j \in 1..Len(output) : output[j] = [t |-> "add_library({} INTERFACE)", a |-> <<targets[1].name>>]

\* C2: a target with sources has exactly one declaration, add_library(<name>
\* for a Library and add_executable(<name> for a Test or Binary, whose file
\* list is the sources in order (followed by the headers for a Library).
C2_SourcesListedInOrder ==
    pc = "done" =>
        \A i \in 1..Len(targets) :
            targets[i].srcs # <<>> =>
                LET b == Block(i)
                    t == targets[i]
                    lib == Declared(b, "add_library({}", t.name)
                    exe == Declared(b, "add_executable({}", t.name)
                IN  IF t.rule_type = "cc_library"
                    THEN /\ Cardinality(lib) = 1 /\ exe = {}
                         /\ \A j \in lib : FileList(b, j) = t.srcs \o t.hdrs /\ Closed(b, j)
                         /\ \A j \in 1..Len(b) : b[j].t # "add_library({} INTERFACE)"
                    ELSE /\ Cardinality(exe) = 1 /\ lib = {}
                         /\ \A j \in exe : FileList(b, j) = t.srcs /\ Closed(b, j)

C2_Witness ==
    /\ pc = "done"
    /\ Len(targets) = 1
    /\ targets[1].rule_type = "cc_library"
    /\ targets[1].srcs = <<S_2, S_1>>
    /\ targets[1].hdrs = <<H_1>>
    /\ \E j \in 1..Len(output) :
           /\ output[j].t = "add_library({}"
           /\ FileList(output, j) = <<S_2, S_1, H_1>>

LinkLines(b) ==
    {j \in 1..Len(b) : b[j].t \in {"target_link_libraries({} {}", "target_link_libraries({}"}}

\* the link declaration at position j of b names n with scope keyword
\* scope (<<>> for none) and lists ids
IsLink(b, j, n, scope, ids) ==
    /\ b[j].t = IF scope = <<>> THEN "target_link_libraries({}" ELSE "target_link_libraries({} {}"
    /\ b[j].a = IF scope = <<>> THEN <<n>> ELSE <<n, scope>>
    /\ FileList(b, j) = ids
    /\ Closed(b, j)

ScopeOf(t) ==
    IF t.rule_type # "cc_library" THEN <<>>
    ELSE IF HeaderOnly(t) THEN <<"I","N","T","E","R","F","A","C","E">>
    ELSE <<"P","U","B","L","I","C">>

\* C5 as stated: a target with dependencies has exactly one link declaration,
\* listing the resolved dependencies in order, with scope INTERFACE for a
\* header-only Library, PUBLIC for another Library and none for a Test or
\* Binary; a target without dependencies has none.
C5_LinkForEveryDependentTarget ==
    pc = "done" =>
        \A i \in 1..Len(targets) :
            LET b == Block(i)
                t == targets[i]
            IN  IF t.deps # <<>>
                THEN /\ Cardinality(LinkLines(b)) = 1
                     /\ \A j \in LinkLines(b) :
                            IsLink(b, j, t.name, ScopeOf(t), _convert_deps_to_cmake(t.deps))
                ELSE LinkLines(b) = {}

\* C5 amended: a target at least one of whose dependencies resolves has
\* exactly one link declaration, listing the resolved dependencies in
\* order, with that scope; a target none of whose dependencies resolves
\* (its dependencies empty or all dropped) has none.
C5_LinkForResolvedDependencies ==
    pc = "done" =>
        \A i \in 1..Len(targets) :
            LET b == Block(i)
                t == targets[i]
                resolved == _convert_deps_to_cmake(t.deps)
            IN  IF resolved # <<>>
                THEN /\ Cardinality(LinkLines(b)) = 1
                     /\ \A j \in LinkLines(b) : IsLink(b, j, t.name, ScopeOf(t), resolved)
                ELSE LinkLines(b) = {}

C5_Witness ==
    /\ pc = "done"
    /\ Len(targets) = 1
    /\ targets[1].rule_type = "cc_library"
    /\ HeaderOnly(targets[1])
    /\ targets[1].deps = <<D_boost, D_pkg_target, D_repo_gtest>>
    /\ \E j \in 1..Len(output) :
           IsLink(output, j, targets[1].name, <<"I","N","T","E","R","F","A","C","E">>,
                  << <<"f","o","o">>, GTEST >>)

\* some emitted link declaration lists GTest::gtest or GTest::gtest_main
LinksGTest ==
    \E k \in 1..Len(targets) : \E j \in LinkLines(Block(k)) :
        \E x \in 1..Len(FileList(Block(k), j)) :
            FileList(Block(k), j)[x] \in {GTEST, GTEST_MAIN}

FetchLines == {i \in 1..Len(output) : output[i].t = "FetchContent_MakeAvailable(googletest)"}

\* C6: the GoogleTest fetch block is emitted once, after the preamble and
\* before every target block, if some emitted link declaration lists
\* GTest::gtest or GTest::gtest_main, and not at all otherwise.
C6_FetchIffGTestLinked ==
    pc = "done" =>
        IF LinksGTest
        THEN /\ Cardinality(FetchLines) = 1
             /\ Cardinality({i \in 1..Len(output) : output[i].t = "FetchContent_Declare("}) = 1
             /\ \A i \in FetchLines :
                    /\ i > Len(_generate_header)
                    /\ \A k \in BlockStarts : i < k
        ELSE FetchLines = {}

(***************************************************************************)
(* Claims on the install section.                                          *)
(***************************************************************************)
\* the item lists of the declarations of ls that open with the line opener
RECURSIVE Entries(_, _)
Entries(ls, opener) ==
    IF ls = <<>> THEN <<>>
    ELSE (IF Head(ls).t = opener THEN <<Items(Tail(ls))>> ELSE <<>>)
         \o Entries(Tail(ls), opener)

InstallMarks == {i \in 1..Len(output) : output[i].t = "# Install rules"}

\* C7: the install section is emitted exactly when some target is a
\* Library; it holds one install(FILES entry for each Library with headers,
\* in input order, then one install(TARGETS declaration naming every
\* Library in input order; Tests and Binaries contribute nothing to it.
C7_InstallSection ==
    pc = "done" =>
        LET libs == SelectSeq(targets, LAMBDA t : t.rule_type = "cc_library")
            with_hdrs == SelectSeq(libs, LAMBDA t : t.hdrs # <<>>)
        IN  IF libs = <<>>
            THEN /\ InstallMarks = {}
                 /\ \A i \in 1..Len(output) :
                        output[i].t \notin {"install(FILES", "install(TARGETS"}
            ELSE /\ Cardinality(InstallMarks) = 1
                 /\ \A m \in InstallMarks :
                        LET section == SubSeq(output, m + 1, Len(output))
                        IN  /\ \A k \in BlockStarts : k < m
                            /\ \A i \in 1..m :
                                   output[i].t \notin {"install(FILES", "install(TARGETS"}
                            /\ Entries(section, "install(FILES") =
                                   [i \in 1..Len(with_hdrs) |-> with_hdrs[i].hdrs]
                            /\ Entries(section, "install(TARGETS") =
                                   << [i \in 1..Len(libs) |-> libs[i].name] >>
                            /\ Cardinality({i \in 1..Len(section) :
                                   section[i].t = "    DESTINATION include)"}) = Len(with_hdrs)
                            /\ \A i, j \in 1..Len(section) :
                                   (section[i].t = "install(FILES"
                                        /\ section[j].t = "install(TARGETS") => i < j

C7_Witness ==
    /\ pc = "done"
    /\ Len(targets) = 2
    /\ targets[1].rule_type = "cc_test" /\ targets[1].hdrs = <<H_1>> /\ targets[1].name = N_a
    /\ targets[2].rule_type = "cc_library" /\ targets[2].hdrs = <<H_1>> /\ targets[2].name = N_b
    /\ Entries(output, "install(FILES") = << <<H_1>> >>
    /\ Entries(output, "install(TARGETS") = << <<N_b>> >>

(***************************************************************************)
(* Claims on test registration.                                            *)
(***************************************************************************)
AddTestLines(b) == {j \in 1..Len(b) : b[j].t = "add_test(NAME {} COMMAND {})"}

WithoutAddTest(b) == SelectSeq(b, LAMBDA l : l.t # "add_test(NAME {} COMMAND {})")

SameFields(t, u) ==
    /\ t.name = u.name /\ t.hdrs = u.hdrs /\ t.srcs = u.srcs /\ t.deps = u.deps
    /\ t.visibility = u.visibility /\ t.data = u.data

\* every Test has one add_test(NAME <name> COMMAND <name>), the last line of
\* its block, after its add_executable and link declarations are closed;
\* no Library or Binary has one
TestRegistration ==
    /\ \A i \in 1..Len(targets) :
           LET b == Block(i)
               t == targets[i]
           IN  IF t.rule_type = "cc_test"
               THEN /\ b # <<>>
                    /\ AddTestLines(b) = {Len(b)}
                    /\ b[Len(b)].a = <<t.name, t.name>>
                    /\ Cardinality(Declared(b, "add_executable({}", t.name)) = 1
                    /\ \A j \in Declared(b, "add_executable({}", t.name) \cup LinkLines(b) :
                           Closed(b, j) /\ j + Len(FileList(b, j)) + 1 < Len(b)
               ELSE AddTestLines(b) = {}
    /\ Cardinality(AddTestLines(output)) =
           Len(SelectSeq(targets, LAMBDA t : t.rule_type = "cc_test"))

\* C8 as stated: the registration of every Test, and the block of a Binary
\* is the block of a Test with the same fields without the add_test line.
C8_BinaryBlockIsTestBlock ==
    pc = "done" =>
        /\ TestRegistration
        /\ \A i, j \in 1..Len(targets) :
               (targets[i].rule_type = "cc_test" /\ targets[j].rule_type = "cc_binary"
                    /\ SameFields(targets[i], targets[j])) =>
                   Block(j) = WithoutAddTest(Block(i))

\* C8 amended: the registration of every Test, and the block of a Binary is
\* the block of a Test with the same fields without the add_test line and
\* with the comment line `# Binary: <name>` in place of `# Test: <name>`.
C8_TestRegistration ==
    pc = "done" =>
        /\ TestRegistration
        /\ \A i, j \in 1..Len(targets) :
               (targets[i].rule_type = "cc_test" /\ targets[j].rule_type = "cc_binary"
                    /\ SameFields(targets[i], targets[j])) =>
                   /\ Block(i)[1] = [t |-> "# Test: {}", a |-> <<targets[i].name>>]
                   /\ Block(j)[1] = [t |-> "# Binary: {}", a |-> <<targets[j].name>>]
                   /\ Tail(Block(j)) = WithoutAddTest(Tail(Block(i)))

C8_Witness ==
    /\ pc = "done"
    /\ Len(targets) = 2
    /\ targets[1].rule_type = "cc_test"
    /\ targets[2].rule_type = "cc_binary"
    /\ SameFields(targets[1], targets[2])
    /\ targets[1].deps = <<D_local, D_gtest_main>>
    /\ Block(1)[Len(Block(1))] = [t |-> "add_test(NAME {} COMMAND {})",
                                  a |-> <<targets[1].name, targets[1].name>>]
    /\ Len(Block(1)) = Len(Block(2)) + 1

(***************************************************************************)
(* Claims on the parser.                                                   *)
(***************************************************************************)
RuleCalls(stmts) ==
    SelectSeq(stmts, LAMBDA st : st.fn \in {"cc_library", "cc_test", "cc_binary"})

\* C9: when parse_file of a new parser raises nothing, it returns one target
\* for each invocation of cc_library, cc_test and cc_binary, in order: its
\* kind the rule, its name the name keyword ("" when missing), each of hdrs,
\* srcs, deps, visibility and data the list given (a single value as a list
\* of one, nothing given as the empty list), and nothing of any other keyword.
C9_ParsedTargets ==
    (pc = "done" /\ parse_result.raised = "") =>
        LET calls == RuleCalls(content.stmts)
            got == parse_result.value
        IN  /\ Len(got) = Len(calls)
            /\ \A i \in 1..Len(calls) :
                   LET kw == calls[i].kwargs
                   IN  /\ DOMAIN got[i] =
                              {"rule_type", "name", "hdrs", "srcs", "deps", "visibility", "data"}
                       /\ got[i].rule_type = calls[i].fn
                       /\ got[i].name = IF "name" \in DOMAIN kw THEN kw["name"].value ELSE <<>>
                       /\ \A a \in {"hdrs", "srcs", "deps", "visibility", "data"} :
                              got[i][a] = IF a \notin DOMAIN kw THEN <<>>
                                          ELSE IF kw[a].is_list THEN kw[a].items
                                          ELSE <<kw[a].value>>

C9_Witness ==
    /\ pc = "done"
    /\ parse_result.raised = ""
    /\ Len(content.stmts) = 2
    /\ content.stmts[1].fn = "cc_binary"
    /\ content.stmts[2].fn = "cc_test"
    /\ Len(parse_result.value) = 2
    /\ parse_result.value[1].name = <<>>
    /\ parse_result.value[2].srcs = <<S_1>>

\* C10: parse_file of a BUILD file that compiles, and gives its rule
\* invocations keywords only, raises nothing, whatever other functions its
\* statements call, and returns one target for each invocation of
\* cc_library, cc_test and cc_binary in it, in order.
C10_ToleratesOtherCalls ==
    (pc = "done" /\ content.syntax_ok
         /\ \A i \in 1..Len(content.stmts) :
                content.stmts[i].fn \in RULES => content.stmts[i].positional = 0) =>
        LET calls == RuleCalls(content.stmts)
        IN  /\ parse_result.raised = ""
            /\ Len(parse_result.value) = Len(calls)
            /\ \A i \in 1..Len(calls) : parse_result.value[i].rule_type = calls[i].fn

(***************************************************************************)
(* Claims on main.                                                         *)
(***************************************************************************)
\* C11: a run of main ends with a nonzero exit status and the output file
\* never opened for writing when the BUILD file does not exist, when
\* parsing raises an error, and when parsing gives no target; the output
\* file is written only after a parse that gave at least one target, and
\* only then is the exit status 0.
C11_MainWritesOnlyOnSuccess ==
    pc = "done" =>
        LET failed == \/ ~fs.build_exists
                      \/ parse_result.raised # ""
                      \/ parse_result.value = <<>>
        IN  /\ failed => /\ returned.code # 0
                         /\ fs.out_file.writes = 0
                         /\ fs.out_file \in {NoFile, OldFile}
            /\ (fs.out_file.writes > 0 \/ returned.code = 0) =>
                   /\ ~failed
                   /\ returned.code = 0
                   /\ returned.raised = ""
                   /\ fs.out_file.writes = 1
                   /\ fs.out_file.exists
                   /\ fs.out_file.lines # OldFile.lines

C11_Witness ==
    /\ pc = "done"
    /\ fs.build_exists
    /\ parse_result.raised = "NameError"
    /\ self_targets # <<>>
    /\ returned.code = 1
    /\ fs.out_file = OldFile

C11_WitnessWritten ==
    /\ pc = "done"
    /\ returned.code = 0
    /\ fs.out_file.writes = 1
    /\ Len(parse_result.value) = 2

(***************************************************************************)
(* One BazelParser whose parse_file is called again and again.             *)
(***************************************************************************)
ReuseStatements ==
    { Call("load", 2, <<>>),
      Call("package", 0, [default_visibility |-> List(<<V_public>>)]),
      Call("cc_library", 0, [name |-> Single(N_a), hdrs |-> List(<<H_1>>)]),
      Call("cc_test", 0, [name |-> Single(N_b), srcs |-> Single(S_1),
                          deps |-> List(<<D_local, D_gtest_main>>)]) }

ReuseDescriptors ==
    {[syntax_ok |-> ok, stmts |-> sts] :
         ok \in BOOLEAN, sts \in SeqsUpTo(ReuseStatements, MaxStmts)}

\* parser = BazelParser(): self.targets = []
ReuseInit ==
    /\ pc = "call"
    /\ ParseIdle
    /\ ResolveIdle
    /\ GenerateIdle
    /\ MainIdle

\* parser.parse_file(filepath) on the same parser, for any descriptor; the
\* calls stop once self.targets holds MaxStmts targets
ParseFileAgain ==
    /\ pc = "call"
    /\ Len(self_targets) < MaxStmts
    /\ \E text \in ReuseDescriptors :
           LET r == parse_file(self_targets, text)
           IN  /\ content' = text
               /\ self_targets' = r.targets
               /\ parse_result' = [raised |-> r.raised, value |-> r.value]
    /\ UNCHANGED <<pc, bazel_deps, cmake_deps, targets, output, fs, returned>>

SpecReuse == ReuseInit /\ [][ParseFileAgain]_vars

(***************************************************************************)
(* Claims on the order of the sections.                                    *)
(***************************************************************************)
\* position of the comment line of the k-th target block
BlockStart(k) ==
    CHOOSE i \in BlockStarts : Cardinality({j \in BlockStarts : j < i}) = k - 1

KindComment(t) ==
    IF t.rule_type = "cc_library" THEN "# Library: {}"
    ELSE IF t.rule_type = "cc_test" THEN "# Test: {}"
    ELSE "# Binary: {}"

\* C12: the written lines are, in this order, the preamble, the
\* external-dependency section when there is one, one block for each
\* target in the order of the list, the i-th block that of the i-th target
\* and each followed by an empty line, and the install section when there
\* is one, with nothing between, before or after them.
C12_SectionsInOrder ==
    pc = "done" =>
        LET n == Len(targets)
            preamble == Len(_generate_header)
            external == {i \in 1..Len(output) : output[i].t = "# External dependencies"}
            \* where the first block starts
            from == IF external = {} THEN preamble + 2
                    ELSE (CHOOSE f \in FetchLines : TRUE) + 2
            \* the line after the empty line that ends the last block
            after == IF n = 0 THEN from ELSE BlockStart(n) + Len(Block(n)) + 1
        IN  /\ Len(output) > preamble
            /\ output[1].t = "cmake_minimum_required(VERSION {})"
            /\ output[preamble].t = "enable_testing()"
            /\ output[preamble + 1].t = ""
            /\ \A i \in 1..preamble : i \notin BlockStarts \cup InstallMarks \cup external
            /\ external \in {{}, {preamble + 2}}
            /\ external # {} => /\ Cardinality(FetchLines) = 1
                                /\ output[from - 1].t = ""
                                /\ \A i \in 1..(from - 1) : i \notin BlockStarts \cup InstallMarks
            /\ Cardinality(BlockStarts) = n
            /\ \A i \in 1..n :
                   /\ Block(i) = _generate_target(targets[i])
                   /\ Block(i)[1] = [t |-> KindComment(targets[i]), a |-> <<targets[i].name>>]
                   /\ BlockStart(i) = IF i = 1 THEN from
                                      ELSE BlockStart(i - 1) + Len(Block(i - 1)) + 1
                   /\ output[BlockStart(i) + Len(Block(i))].t = ""
            /\ IF InstallMarks = {} THEN Len(output) = after - 1
               ELSE InstallMarks = {after}

C12_Witness ==
    /\ pc = "done"
    /\ Len(targets) = 2
    /\ targets[1].rule_type = "cc_test" /\ targets[1].deps = <<D_local, D_gtest_main>>
    /\ targets[2].rule_type = "cc_library" /\ targets[2].hdrs = <<H_1>>
    /\ targets[1].name = targets[2].name
    /\ FetchLines # {}
    /\ InstallMarks # {}
    /\ output[BlockStart(1)].t = "# Test: {}"
    /\ output[BlockStart(2)].t = "# Library: {}"
    /\ BlockStart(1) < BlockStart(2)

(***************************************************************************)
(* Claims on a parser that is used more than once.                         *)
(***************************************************************************)
\* C13: after any sequence of parse_file calls on one BazelParser, earlier
\* calls that raised included, the list returned by the latest call that
\* raised nothing is the list a fresh parser returns for the descriptor of
\* that call, with no target of an earlier call in it.
C13_LatestResultIsFresh ==
    (content # NoContent /\ parse_result.raised = "") =>
        parse_result.value = parse_file(<<>>, content).value

====
